---- MODULE Spec2Model ----
(***************************************************************************)
(* Model of "personal server start scripts/model_converter.py": main()     *)
(* converts every *.safetensors file of a directory into a .ckpt file.     *)
(*                                                                         *)
(* Paths are strings, the file system is a function from the paths of the  *)
(* existing regular files to their contents plus the set of existing       *)
(* directories.  One run of main is cut at its file-system and memory      *)
(* operations: Start (lines 20-30), Iterate (32-38), LoadFile and Bind     *)
(* (41-42), Save (44-45), Release (48-51), Complete (57).                  *)
(***************************************************************************)
EXTENDS Integers, Sequences, FiniteSets, TLC

VARIABLES
    dirs,              \* the existing directories (main never creates one)
    fs,                \* existing regular files: path -> content
    pc,                \* position of main: idle, loop, load, bind, save, release, done
    base_path,         \* argument of main
    skip_existing,     \* argument of main
    safetensor_files,  \* result of glob, in enumeration order
    idx,               \* position of the for loop in safetensor_files
    ckpt,              \* the local variable ckpt: <<>> when unbound, <<obj>> when bound
    result,            \* value returned by load_file and not yet assigned: <<>> or <<obj>>
    heap,              \* the loaded mappings that are referenced, hence in memory
    out,               \* messages printed by the current run
    ops,               \* file operations (glob, load, save) performed by the current run
    fs0,               \* the files as they were when the current run started
    prev,              \* the previous run: its arguments and the jobs it converted, skipped
    faults             \* number of I/O errors torch.save met in the current run

vars == <<dirs, fs, pc, base_path, skip_existing, safetensor_files, idx, ckpt,
          result, heap, out, ops, fs0, prev, faults>>

----------------------------------------------------------------------------
(* Bounds of the model *)

\* source files present in the file system
MaxSources == 2
\* I/O errors torch.save meets in one run (a missing target directory is not
\* counted: it raises every time)
MaxFaults == 1

----------------------------------------------------------------------------
(* Strings.  A string is the sequence of its pieces: single characters and *)
(* the two extensions, each kept as one piece.  Either extension holds one *)
(* "." and begins with it, so no occurrence of an extension in a string    *)
(* overlaps another occurrence or lies across two pieces.                  *)

SrcExt == <<".safetensors">>
TgtExt == <<".ckpt">>
Sep == <<"/">>

IsPrefix(p, s) == Len(p) <= Len(s) /\ SubSeq(s, 1, Len(p)) = p
EndsWith(s, e) == Len(e) <= Len(s) /\ SubSeq(s, Len(s) - Len(e) + 1, Len(s)) = e

\* str.replace(old, new): every non-overlapping occurrence, left to right
RECURSIVE Replace(_, _, _)
Replace(s, old, new) ==
    IF s = <<>> THEN <<>>
    ELSE IF IsPrefix(old, s)
         THEN new \o Replace(SubSeq(s, Len(old) + 1, Len(s)), old, new)
         ELSE <<Head(s)>> \o Replace(Tail(s), old, new)

\* index of the last "/" of p, 0 when there is none
RECURSIVE LastSep(_, _)
LastSep(p, i) == IF i = 0 THEN 0 ELSE IF p[i] = "/" THEN i ELSE LastSep(p, i - 1)

Basename(p) == SubSeq(p, LastSep(p, Len(p)) + 1, Len(p))
Dirname(p) == SubSeq(p, 1, LastSep(p, Len(p)) - 1)

\* line 33
OutputFilename(filename) == Replace(filename, SrcExt, TgtExt)

----------------------------------------------------------------------------
(* File system *)

PathExists(p) == p \in dirs \/ p \in DOMAIN fs

\* glob(f"{base_path}/*.safetensors"): the entries directly inside base_path
\* whose name ends with the extension; "*" does not match a leading dot
GlobMatches(bp, p) ==
    /\ IsPrefix(bp \o Sep, p)
    /\ Dirname(p) = bp
    /\ EndsWith(Basename(p), SrcExt)
    /\ Head(Basename(p)) \notin {".", ".safetensors", ".ckpt"}

Glob(bp) == IF bp \in dirs THEN {p \in DOMAIN fs : GlobMatches(bp, p)} ELSE {}

\* all enumeration orders of a finite set
Orders(S) == {s \in [1..Cardinality(S) -> S] : \A i, j \in 1..Cardinality(S) : s[i] = s[j] => i = j}

M1 == [w |-> 1, b |-> 2]
M2 == [w |-> 3, b |-> 4]

Safetensors(m) == [fmt |-> "safetensors", tensors |-> m]
Checkpoint(m) == [fmt |-> "ckpt", tensors |-> m]
Corrupt == [fmt |-> "corrupt", tensors |-> M1]
Truncated == [fmt |-> "truncated", tensors |-> M1]

\* load_file raises on anything that is not a well-formed safetensors file
LoadOk(p) == p \in DOMAIN fs /\ fs[p].fmt = "safetensors"

Write(p, c) == [q \in DOMAIN fs \cup {p} |-> IF q = p THEN c ELSE fs[q]]

----------------------------------------------------------------------------
(* The directories and files the runs are tried on *)

DirD == <<"d">>
DirS == <<"d">> \o SrcExt
DirC == <<"d">> \o TgtExt
NoDir == <<"x">>
BasePaths == {DirD, DirS, NoDir}

FileA == DirD \o Sep \o <<"a">> \o SrcExt
FileB == DirD \o Sep \o <<"b">> \o SrcExt
FileAC == DirD \o Sep \o <<"a">> \o TgtExt \o SrcExt
FileAS == DirD \o Sep \o <<"a">> \o SrcExt \o SrcExt
Hidden == DirD \o Sep \o SrcExt
FileSA == DirS \o Sep \o <<"a">> \o SrcExt

SourceCandidates == {FileA, FileB, FileAC, FileAS, Hidden, FileSA}

M0 == [w |-> 0, b |-> 0]
Old == Checkpoint(M0)
SourceTensors(p) == IF p \in {FileA, FileAC, Hidden} THEN M1 ELSE M2

\* the file systems tried: at most MaxSources source files, some of them
\* corrupt, some of their targets left by an earlier conversion, and the
\* directory d.ckpt present or not
InitialFiles(S, bad, T) ==
    [p \in S \cup T |-> IF p \in T THEN Old
                        ELSE IF p \in bad THEN Corrupt
                        ELSE Safetensors(SourceTensors(p))]

NoRun == [valid |-> FALSE, base_path |-> <<>>, skip_existing |-> FALSE,
          converted |-> {}, skipped |-> {}]

Init ==
    /\ \E S \in SUBSET SourceCandidates :
         /\ Cardinality(S) <= MaxSources
         /\ dirs \in IF FileSA \in S THEN {{DirD, DirS}, {DirD, DirS, DirC}}
                                     ELSE {{DirD, DirS}}
         /\ \E bad \in SUBSET (S \ {Hidden}),
               T \in SUBSET {OutputFilename(p) : p \in S \ {Hidden}} :
              /\ \A t \in T : Dirname(t) \in dirs
              /\ fs = InitialFiles(S, bad, T)
    /\ pc = "idle"
    /\ base_path = <<>>
    /\ skip_existing = TRUE
    /\ safetensor_files = <<>>
    /\ idx = 1
    /\ ckpt = <<>>
    /\ result = <<>>
    /\ heap = {}
    /\ out = <<>>
    /\ ops = <<>>
    /\ fs0 = fs
    /\ prev = NoRun
    /\ faults = 0

----------------------------------------------------------------------------
(* main *)

Msg(kind, filename) == [kind |-> kind, file |-> Basename(filename)]
\* a file operation: which call, for which job (source file), on which path,
\* and whether it returned (ok) or raised
Op(op, file, p, ok) == [op |-> op, file |-> file, path |-> p, ok |-> ok]
Obj(filename) == [file |-> filename, tensors |-> fs[filename].tensors]

\* the files (base names) the current run printed a message of this kind for
Reported(kind) == {out[i].file : i \in {j \in 1..Len(out) : out[j].kind = kind}}

filename == safetensor_files[idx]
output_filename == OutputFilename(filename)

\* lines 20-22 without the return of line 22: glob runs on the missing path
NotFoundFallsThrough(bp) ==
    /\ out' = <<[kind |-> "path_not_found", path |-> bp],
                [kind |-> "none_found", path |-> bp]>>
    /\ ops' = <<Op("glob", bp, bp, TRUE)>>
    /\ safetensor_files' = <<>>
    /\ pc' = "done"

\* lines 20-22: the path does not exist
NotFound(bp) ==
    /\ out' = <<[kind |-> "path_not_found", path |-> bp]>>
    /\ ops' = <<>>
    /\ safetensor_files' = <<>>
    /\ pc' = "done"

\* lines 26-28 without the return of line 28: the run goes on to lines 30-57
NoneFoundFallsThrough(bp) ==
    /\ out' = <<[kind |-> "none_found", path |-> bp], [kind |-> "found", n |-> 0]>>
    /\ pc' = "loop"

\* lines 26-28: glob found nothing
NoneFound(bp) ==
    /\ out' = <<[kind |-> "none_found", path |-> bp]>>
    /\ pc' = "done"

\* line 30 counting every file of the directory instead of the matches
FoundCountsDirectory(bp) ==
    /\ out' = <<[kind |-> "found", n |-> Cardinality({p \in DOMAIN fs : Dirname(p) = bp})]>>
    /\ pc' = "loop"

\* line 30
Found(bp) ==
    /\ out' = <<[kind |-> "found", n |-> Len(safetensor_files')]>>
    /\ pc' = "loop"

\* main(base_path, skip_existing) up to the loop: lines 20-30, called by line
\* 68.  A run that follows another one is made on the same directory, with
\* either value of the flag, and nothing else touches the files in between.
Start(bp, se) ==
    /\ pc = "idle" \/ (pc = "done" /\ bp = base_path)
    /\ fs0' = fs
    /\ faults' = 0
    /\ prev' = [valid |-> pc = "done", base_path |-> base_path,
                skip_existing |-> skip_existing,
                converted |-> Reported("success"), skipped |-> Reported("skip")]
    /\ base_path' = bp
    /\ skip_existing' = se
    /\ idx' = 1
    /\ IF ~PathExists(bp)
       THEN NotFound(bp)
       ELSE /\ ops' = <<Op("glob", bp, bp, TRUE)>>
            /\ safetensor_files' \in Orders(Glob(bp))
            /\ IF safetensor_files' = <<>> THEN NoneFound(bp) ELSE Found(bp)
    /\ UNCHANGED <<dirs, fs, ckpt, result, heap>>

\* line 36 without the test of skip_existing
SkipIgnoresFlag == PathExists(output_filename)

\* line 36 with the flag inverted
SkipInverted == ~skip_existing /\ PathExists(output_filename)

\* line 36
SkipJob == skip_existing /\ PathExists(output_filename)

\* lines 32-38 and 41
Iterate ==
    /\ pc = "loop"
    /\ idx <= Len(safetensor_files)
    /\ IF SkipJob
       THEN /\ out' = Append(out, Msg("skip", filename))
            /\ idx' = idx + 1
            /\ pc' = "loop"
       ELSE /\ out' = Append(out, Msg("loading", filename))
            /\ idx' = idx
            /\ pc' = "load"
    /\ UNCHANGED <<dirs, fs, base_path, skip_existing, safetensor_files, ckpt,
                   result, heap, ops, fs0, prev, faults>>

\* lines 53-55 ending the loop (break) instead of going on (continue)
ExceptAborts ==
    /\ out' = Append(out, Msg("error", filename))
    /\ idx' = idx
    /\ pc' = "done"

\* lines 53-55: the handler of an exception raised by load_file or torch.save
Except ==
    /\ out' = Append(out, Msg("error", filename))
    /\ idx' = idx + 1
    /\ pc' = "loop"

\* line 42, the call load_file(filename); lines 53-55 when it raises
LoadFile ==
    /\ pc = "load"
    /\ ops' = Append(ops, Op("load", filename, filename, LoadOk(filename)))
    /\ IF LoadOk(filename)
       THEN /\ result' = <<Obj(filename)>>
            /\ heap' = heap \cup {Obj(filename)}
            /\ out' = out
            /\ idx' = idx
            /\ pc' = "bind"
       ELSE /\ result' = <<>>
            /\ heap' = heap
            /\ Except
    /\ UNCHANGED <<dirs, fs, base_path, skip_existing, safetensor_files, ckpt,
                   fs0, prev, faults>>

\* line 42, the assignment to ckpt (the mapping ckpt was bound to loses its
\* last reference), and line 44
Bind ==
    /\ pc = "bind"
    /\ ckpt' = result
    /\ result' = <<>>
    /\ heap' = {result[1]}
    /\ out' = Append(out, Msg("saving", filename))
    /\ pc' = "save"
    /\ UNCHANGED <<dirs, fs, base_path, skip_existing, safetensor_files, idx,
                   ops, fs0, prev, faults>>

\* line 45: torch.save(ckpt, output_filename) writes the target, or raises
\* because the directory of the target does not exist, or raises on an I/O
\* error that leaves the files as they were or a truncated target; when it
\* raises, lines 53-55 run and ckpt stays bound
Save ==
    /\ pc = "save"
    /\ \/ /\ Dirname(output_filename) \in dirs
          /\ fs' = Write(output_filename, Checkpoint(ckpt[1].tensors))
          /\ ops' = Append(ops, Op("save", filename, output_filename, TRUE))
          /\ out' = out
          /\ idx' = idx
          /\ pc' = "release"
          /\ faults' = faults
       \/ /\ Dirname(output_filename) \notin dirs
          /\ fs' = fs
          /\ ops' = Append(ops, Op("save", filename, output_filename, FALSE))
          /\ Except
          /\ faults' = faults
       \/ /\ Dirname(output_filename) \in dirs
          /\ faults < MaxFaults
          /\ faults' = faults + 1
          /\ fs' \in {fs, Write(output_filename, Truncated)}
          /\ ops' = Append(ops, Op("save", filename, output_filename, FALSE))
          /\ Except
    /\ UNCHANGED <<dirs, base_path, skip_existing, safetensor_files, ckpt,
                   result, heap, fs0, prev>>

\* lines 48-51
Release ==
    /\ pc = "release"
    /\ ckpt' = <<>>
    /\ heap' = {}
    /\ out' = Append(out, Msg("success", filename))
    /\ idx' = idx + 1
    /\ pc' = "loop"
    /\ UNCHANGED <<dirs, fs, base_path, skip_existing, safetensor_files,
                   result, ops, fs0, prev, faults>>

\* line 57, and the return of main, which drops its locals
Complete ==
    /\ pc = "loop"
    /\ idx > Len(safetensor_files)
    /\ out' = Append(out, [kind |-> "complete"])
    /\ ckpt' = <<>>
    /\ heap' = {}
    /\ pc' = "done"
    /\ UNCHANGED <<dirs, fs, base_path, skip_existing, safetensor_files, idx,
                   result, ops, fs0, prev, faults>>

Next ==
    \/ \E bp \in BasePaths, se \in BOOLEAN : Start(bp, se)
    \/ Iterate
    \/ LoadFile
    \/ Bind
    \/ Save
    \/ Release
    \/ Complete

Spec == Init /\ [][Next]_vars

----------------------------------------------------------------------------
(* Properties *)

Count(kind) == Cardinality({i \in 1..Len(out) : out[i].kind = kind})
Discovered == {safetensor_files[i] : i \in 1..Len(safetensor_files)}
\* the jobs (source files) the current run made this call for
Called(op) == {ops[i].file : i \in {j \in 1..Len(ops) : ops[j].op = op}}
Returned(op) == {ops[i].file : i \in {j \in 1..Len(ops) : ops[j].op = op /\ ops[j].ok}}
Raised == {ops[i].file : i \in {j \in 1..Len(ops) : ~ops[j].ok}}
Missing(p) == p \notin dirs /\ p \notin DOMAIN fs

\* C1: a run on a base path that does not exist prints the path-not-found
\* message and nothing else, ends at once, and calls neither glob nor load nor
\* save, so that no file is created or changed.
C1_PathNotFound ==
    (pc # "idle" /\ Missing(base_path)) =>
        /\ pc = "done"
        /\ out = <<[kind |-> "path_not_found", path |-> base_path]>>
        /\ ops = <<>>
        /\ fs = fs0

C1_Witness ==
    /\ pc = "done"
    /\ base_path = NoDir
    /\ ~skip_existing
    /\ prev.valid /\ prev.skip_existing
    /\ DOMAIN fs # {}

\* C7: a run on an existing directory without a matching source file ends at
\* once with the nothing-found message alone (no error message), having
\* called glob only: nothing is loaded, saved, created or changed.
C7_NoMatchingFiles ==
    (pc # "idle" /\ base_path \in dirs /\ Glob(base_path) = {}) =>
        /\ pc = "done"
        /\ out = <<[kind |-> "none_found", path |-> base_path]>>
        /\ ops = <<Op("glob", base_path, base_path, TRUE)>>
        /\ fs = fs0

C7_Witness ==
    /\ pc = "done"
    /\ base_path = DirD
    /\ Glob(base_path) = {}
    /\ Hidden \in DOMAIN fs
    /\ ~skip_existing
    /\ prev.valid /\ prev.skip_existing

\* the step a run can take while it is inside main
RunStep == Iterate \/ LoadFile \/ Bind \/ Save \/ Release \/ Complete
SkipReported(f) == Basename(f) \in Reported("skip")
SuccessReported(f) == Basename(f) \in Reported("success")
ErrorReported(f) == Basename(f) \in Reported("error")

\* C2: when the loop reaches a job, the job is skipped (skip message, no load,
\* no save, no file changed) if and only if skip_existing is true and the
\* target exists at that moment, and otherwise goes on to load; a run with
\* skip_existing false skips nothing: it calls load for every discovered file
\* and save for every file that loaded, and a target reported as converted was
\* written by that run.
C2_SkipPolicy ==
    /\ [][(pc = "loop" /\ idx <= Len(safetensor_files)) =>
            IF skip_existing /\ ~Missing(output_filename)
            THEN /\ out' = Append(out, Msg("skip", filename))
                 /\ ops' = ops /\ fs' = fs /\ heap' = heap
                 /\ idx' = idx + 1 /\ pc' = "loop"
            ELSE /\ out' = Append(out, Msg("loading", filename))
                 /\ pc' = "load"]_vars
    /\ [](pc = "done" =>
            /\ \A f \in Discovered : SkipReported(f) <=> f \notin Called("load")
            /\ \A f \in Discovered : f \in Returned("load") <=> f \in Called("save")
            /\ \A f \in Discovered : SuccessReported(f) <=> f \in Returned("save")
            /\ ~skip_existing => Count("skip") = 0 /\ Called("load") = Discovered)

\* a file skipped by a run with skip_existing, its old target being there,
\* and converted over that target by the next run, made with --force
C2_Witness ==
    /\ pc = "done"
    /\ ~skip_existing
    /\ prev.valid /\ prev.skip_existing
    /\ \E f \in Discovered :
         /\ Basename(f) \in prev.skipped
         /\ SuccessReported(f)
         /\ fs0[OutputFilename(f)] = Old
         /\ fs[OutputFilename(f)] = Checkpoint(fs[f].tensors)

\* C4: a run over a directory with matching files always reaches the
\* completion message; every discovered file gets exactly one of the reports
\* skip, success, error; the error report goes to exactly the files whose own
\* load or save raised, and every file that was not skipped and whose load and
\* save did not raise is reported converted, its target having been written.
C4_ErrorIsolation ==
    /\ (pc \notin {"idle", "done"} => ENABLED RunStep)
    /\ (pc = "done" /\ safetensor_files # <<>>) =>
        /\ out[Len(out)].kind = "complete"
        /\ Count("skip") + Count("success") + Count("error") = Len(safetensor_files)
        /\ \A f \in Discovered :
             /\ SkipReported(f) \/ SuccessReported(f) \/ ErrorReported(f)
             /\ ErrorReported(f) <=> f \in Raised
             /\ (~SkipReported(f) /\ f \notin Raised) =>
                    SuccessReported(f) /\ f \in Returned("save")

\* a corrupt file enumerated first and a valid file converted after it
C4_Witness ==
    /\ pc = "done"
    /\ Len(safetensor_files) = 2
    /\ fs[safetensor_files[1]] = Corrupt
    /\ ErrorReported(safetensor_files[1])
    /\ SuccessReported(safetensor_files[2])
    /\ fs[OutputFilename(safetensor_files[2])] =
          Checkpoint(fs[safetensor_files[2]].tensors)

\* the current run is the second of two runs in a row on one directory, both
\* with skip_existing, and has ended
SecondSkippingRunDone ==
    /\ pc = "done"
    /\ prev.valid /\ prev.skip_existing /\ prev.base_path = base_path
    /\ skip_existing

\* C3 as stated: after a run with skip_existing, whatever failed in it, a
\* second run with skip_existing reports every file as skipped, converts
\* nothing and changes no file.
C3_AllSkipped ==
    SecondSkippingRunDone =>
        /\ \A f \in Discovered : SkipReported(f)
        /\ Count("success") = 0
        /\ fs = fs0

\* C3 as amended: of two runs in a row with skip_existing the second converts
\* no file the first converted, reports as skipped every file the first
\* converted or skipped and every file whose target the first left behind,
\* skips no file whose target is missing, and changes no file that existed
\* when it started.
C3_Idempotent ==
    SecondSkippingRunDone =>
        /\ Reported("success") \cap prev.converted = {}
        /\ \A f \in Discovered :
             Basename(f) \in prev.converted \cup prev.skipped => SkipReported(f)
        /\ \A f \in Discovered :
             OutputFilename(f) \in DOMAIN fs0 => SkipReported(f)
        /\ \A f \in Discovered : SkipReported(f) => OutputFilename(f) \in DOMAIN fs
        /\ \A p \in DOMAIN fs0 : fs[p] = fs0[p]

\* a first run that converted one file and failed on another, then a second
\* run that skipped the first file and failed on the other again
C3_Witness ==
    /\ SecondSkippingRunDone
    /\ \E f, g \in Discovered :
         /\ Basename(f) \in prev.converted
         /\ SkipReported(f)
         /\ fs[OutputFilename(f)] = Checkpoint(fs[f].tensors)
         /\ ErrorReported(g)

ReplaceExtension(p) == SubSeq(p, 1, Len(p) - Len(SrcExt)) \o TgtExt

\* C9: the target path of every discovered source path is that path with only
\* its trailing extension replaced, hence in the same directory.
C9_TargetNaming ==
    \A f \in Discovered :
        /\ OutputFilename(f) = ReplaceExtension(f)
        /\ Dirname(OutputFilename(f)) = Dirname(f)

\* C10: two distinct source files of a run have distinct target paths.
C10_DistinctTargets ==
    \A f, g \in Discovered : f # g => OutputFilename(f) # OutputFilename(g)

\* a target that loads back: a complete file in the checkpoint format
TorchLoadOk(p) == p \in DOMAIN fs /\ fs[p].fmt = "ckpt"

\* C5: when a run has ended, the target of every file it reported converted
\* loads as the mapping its source file holds; and the mapping torch.save is
\* called with is the one load_file returned for the file of that iteration.
C5_RoundTrip ==
    /\ pc = "save" => ckpt = <<Obj(filename)>>
    /\ pc = "done" =>
         \A f \in Discovered :
             SuccessReported(f) =>
                 /\ TorchLoadOk(OutputFilename(f))
                 /\ fs[OutputFilename(f)].tensors = fs[f].tensors

\* C8: no loaded mapping is held when the loop turns to the next job or when
\* the next load begins, and at most one is held at any time.
C8_Released ==
    /\ pc \in {"loop", "load"} => heap = {}
    /\ Cardinality(heap) <= 1

====
